---- MODULE Spec2Model ----
(***************************************************************************)
(* A model of rust-app-exemplo: the users repository (src/src/db.rs), the  *)
(* HTTP API built on it (src/src/api) and its logging middleware; then     *)
(* the library (src/src/lib.rs) and the db commands of the CLI             *)
(* (src/src/main.rs), each under a specification of its own.               *)
(*                                                                         *)
(* A name is a string, of which the validation reads the length; an email  *)
(* is a sequence of one-character strings, of which it reads the           *)
(* characters.                                                             *)
(* An Option is a sequence of length 0 or 1; a Result is a record with an  *)
(* ok flag.  A JSON value is a record tagged by j.                         *)
(***************************************************************************)
EXTENDS Integers, Sequences, FiniteSets, TLC

\* ------------------------------------------------------------- bounds
\* The serial of the users table hands out ids 1..MaxId and then stops.
MaxId == 2

\* ------------------------------------------------- program constants
\* #[validate(length(min = 1, max = 255))] on CreateUserRequest.name
NameMin == 1
NameMax == 255

\* ------------------------------------------------------ Rust values
None == << >>
Some(x) == << x >>
Ok(v) == [ok |-> TRUE, val |-> v]
Err(e) == [ok |-> FALSE, err |-> e]
Unit == [t |-> "unit"]

\* n times the character c, as a sequence and as a string.
Rep(c, n) == [i \in 1..n |-> c]
RECURSIVE RepStr(_, _)
RepStr(c, n) ==
    IF n = 0
    THEN ""
    ELSE LET half == RepStr(c, n \div 2)
         IN  half \o half \o (IF n % 2 = 1 THEN c ELSE "")

\* ------------------------------------------------------ input samples
NameAnn == "Ann"
EmailAnn == << "a", "n", "n", "@", "x", ".", "c", "o", "m" >>
EmailBob == << "b", "@", "y" >>

\* Names a request may carry: empty, ordinary, of the longest valid
\* length, and one character longer.
Names == { "", NameAnn, RepStr("a", NameMax), RepStr("a", NameMax + 1) }

\* Emails a request may carry: two valid ones, and one for each way the
\* address syntax can be broken.
Emails ==
    { EmailAnn, EmailBob,
      << >>,
      << "a", "n", "n" >>,
      << "@", "x" >>,
      << "a", "@" >>,
      << "a", " ", "@", "x" >>,
      << "a", "@", "-", "x" >>,
      << "a", "@", "x", ".", ".", "c" >>,
      Rep("a", 65) \o << "@", "x" >> }

\* Timestamps the store's clock may show at an insert.
Timestamps == { 10, 20 }

\* Ids a request may name: every id the serial can hand out, and one it
\* never does.
ReqIds == 1..(MaxId + 1)

\* What a direct caller of the repository (the CLI, a library user) may
\* pass: no validation stands between it and the store.
RepoNames == { NameAnn }
RepoEmails == { EmailBob }

\* ------------------------------------------------------------- state
VARIABLES
    users,      \* the rows of the users table (a set: a table has no order)
    next_id,    \* the next value of the id serial
    store_up,   \* whether the store answers
    pc,         \* "idle", or "handled": the middleware awaits no more
    req,        \* the operation in progress or last completed
    ret,        \* the result of the store calls that operation made, in order
    inner,      \* the response the handler gave (None: not an API request)
    resp,       \* the response the middleware returned (None: not yet)
    log,        \* the log records emitted for that operation
    lib,        \* the last call of a library function: its input and output
    lib_user,   \* the library's User value a caller holds (None: not built)
    cli         \* the list-users command: its position and what it holds

vars ==
    << users, next_id, store_up, pc, req, ret, inner, resp, log,
       lib, lib_user, cli >>

\* What the API and the repository leave alone.
libvars == << lib, lib_user, cli >>

\* --------------------------------------------------------- validation
Lower == { "a", "b", "c", "m", "n", "o", "x", "y" }
Upper == { "A", "B" }
Digit == { "0", "1" }
Alnum == Lower \cup Upper \cup Digit
UserSpecial ==
    { ".", "!", "#", "$", "%", "&", "*", "+", "/", "=", "?", "^", "_",
      "{", "|", "}", "~", "-" }

\* The positions of c in s.
Positions(s, c) == { i \in 1..Len(s) : s[i] = c }

Max(S) == CHOOSE x \in S : \A y \in S : y <= x

\* A mutant of ValidateLength: the upper limit is off by one.
ValidateLength_off_by_one(s) == Len(s) >= NameMin /\ Len(s) <= NameMax + 1

\* #[validate(length(min = 1, max = 255))]: the number of characters.
ValidateLength(s) == Len(s) >= NameMin /\ Len(s) <= NameMax

\* The local part: one or more of the characters the address syntax
\* allows, at most 64 of them.
ValidUserPart(u) ==
    /\ Len(u) >= 1
    /\ Len(u) <= 64
    /\ \A i \in 1..Len(u) : u[i] \in Alnum \cup UserSpecial

\* The domain: labels separated by dots, each of 1..63 characters,
\* alphanumeric at both ends, alphanumeric or a hyphen inside.
ValidDomainPart(d) ==
    /\ Len(d) >= 1
    /\ Len(d) <= 255
    /\ \A i \in 1..Len(d) : d[i] \in Alnum \cup { "-", "." }
    /\ d[1] \in Alnum
    /\ d[Len(d)] \in Alnum
    /\ \A i \in Positions(d, ".") : d[i - 1] \in Alnum /\ d[i + 1] \in Alnum
    /\ \A i \in 1..(Len(d) - 63) : \E k \in i..(i + 63) : d[k] = "."

\* #[validate(email)]: the text is split at its last at-sign.
ValidateEmail(e) ==
    /\ Positions(e, "@") # {}
    /\ LET at == Max(Positions(e, "@"))
       IN  /\ ValidUserPart(SubSeq(e, 1, at - 1))
           /\ ValidDomainPart(SubSeq(e, at + 1, Len(e)))

\* CreateUserRequest::validate
Validate(payload) ==
    ValidateLength(payload.name) /\ ValidateEmail(payload.email)

\* ---------------------------------------------------- the users table
\* The table's schema is created by the migrations; what they declare is
\* taken from the persisted-schema description: id is a generated primary
\* key, created_at is set at insert.

\* The id the store gives an inserted row: the serial's next value.
GeneratedId(seq) == seq

\* created_at of an inserted row: the store's clock at the insert.
CreatedAtDefault(ts) == Some(ts)

\* The serial once it has handed out a value.
SerialAfter(seq) == seq + 1

HasRow(tbl, id) == \E r \in tbl : r.id = id
RowsOf(tbl, id) == { r \in tbl : r.id = id }
IdsOf(tbl) == { r.id : r \in tbl }

\* ---------------------------------------------------------- repository
\* Each operation is one SQL statement: it sees and changes the table
\* atomically.  It yields [res, users, next_id]: the Result it returns
\* and the store it leaves.  A call that fails leaves the store as it was
\* (each operation is all-or-nothing).

StoreError == "store error"

\* A mutant of DbUser_create: the row is inserted inactive.
DbUser_create_inactive(tbl, seq, up, name, email, env) ==
    IF ~up \/ env.reject
    THEN [res |-> Err(StoreError), users |-> tbl, next_id |-> seq]
    ELSE LET row == [id |-> GeneratedId(seq), name |-> name, email |-> email,
                     active |-> FALSE, created_at |-> CreatedAtDefault(env.ts)]
         IN  [res |-> Ok(row), users |-> tbl \cup { row },
              next_id |-> SerialAfter(seq)]

\* INSERT INTO users (name, email, active) VALUES ($1, $2, true) RETURNING *
\* env.reject: the store refuses the row (a constraint of the schema).
DbUser_create(tbl, seq, up, name, email, env) ==
    IF ~up
    THEN [res |-> Err(StoreError), users |-> tbl, next_id |-> seq]
    ELSE IF env.reject
    THEN [res |-> Err(StoreError), users |-> tbl, next_id |-> seq]
    ELSE LET row == [id |-> GeneratedId(seq), name |-> name, email |-> email,
                     active |-> TRUE, created_at |-> CreatedAtDefault(env.ts)]
         IN  [res |-> Ok(row), users |-> tbl \cup { row },
              next_id |-> SerialAfter(seq)]

\* A mutant of DbUser_find_by_id: fetch_one, which fails when no row
\* matches.
DbUser_find_by_id_fetch_one(tbl, seq, up, id) ==
    IF ~up \/ ~HasRow(tbl, id)
    THEN [res |-> Err(StoreError), users |-> tbl, next_id |-> seq]
    ELSE [res |-> Ok(Some(CHOOSE r \in tbl : r.id = id)),
          users |-> tbl, next_id |-> seq]

\* SELECT * FROM users WHERE id = $1, fetch_optional
DbUser_find_by_id(tbl, seq, up, id) ==
    IF ~up
    THEN [res |-> Err(StoreError), users |-> tbl, next_id |-> seq]
    ELSE [res |-> Ok(IF HasRow(tbl, id)
                     THEN Some(CHOOSE r \in tbl : r.id = id)
                     ELSE None),
          users |-> tbl, next_id |-> seq]

\* A mutant of SortById: the rows in descending order of id.
RECURSIVE SortById_descending(_)
SortById_descending(tbl) ==
    IF tbl = {}
    THEN << >>
    ELSE LET first == CHOOSE r \in tbl : \A q \in tbl : r.id >= q.id
         IN  << first >> \o SortById_descending(tbl \ { first })

\* The rows of tbl in ascending order of id.
RECURSIVE SortById(_)
SortById(tbl) ==
    IF tbl = {}
    THEN << >>
    ELSE LET first == CHOOSE r \in tbl : \A q \in tbl : r.id <= q.id
         IN  << first >> \o SortById(tbl \ { first })

\* SELECT * FROM users ORDER BY id, fetch_all
DbUser_list_all(tbl, seq, up) ==
    IF ~up
    THEN [res |-> Err(StoreError), users |-> tbl, next_id |-> seq]
    ELSE [res |-> Ok(SortById(tbl)), users |-> tbl, next_id |-> seq]

\* A mutant of DbUser_update: no WHERE clause, every row is overwritten.
DbUser_update_every_row(tbl, seq, up, user) ==
    IF ~up
    THEN [res |-> Err(StoreError), users |-> tbl, next_id |-> seq]
    ELSE [res |-> Ok(Unit),
          users |-> { [r EXCEPT !.name = user.name, !.email = user.email,
                                !.active = user.active] : r \in tbl },
          next_id |-> seq]

\* A mutant of DbUser_update: the row is found by its name and given the
\* id that was passed.
DbUser_update_sets_id(tbl, seq, up, user) ==
    IF ~up
    THEN [res |-> Err(StoreError), users |-> tbl, next_id |-> seq]
    ELSE [res |-> Ok(Unit),
          users |-> { IF r.name = user.name
                      THEN [r EXCEPT !.id = user.id, !.email = user.email,
                                     !.active = user.active]
                      ELSE r : r \in tbl },
          next_id |-> seq]

\* UPDATE users SET name = $1, email = $2, active = $3 WHERE id = $4
DbUser_update(tbl, seq, up, user) ==
    IF ~up
    THEN [res |-> Err(StoreError), users |-> tbl, next_id |-> seq]
    ELSE [res |-> Ok(Unit),
          users |-> { IF r.id = user.id
                      THEN [r EXCEPT !.name = user.name,
                                     !.email = user.email,
                                     !.active = user.active]
                      ELSE r : r \in tbl },
          next_id |-> seq]

\* A mutant of DbUser_delete: no WHERE clause, every row is removed.
DbUser_delete_every_row(tbl, seq, up, id) ==
    IF ~up
    THEN [res |-> Err(StoreError), users |-> tbl, next_id |-> seq]
    ELSE [res |-> Ok(Unit), users |-> {}, next_id |-> seq]

\* DELETE FROM users WHERE id = $1
DbUser_delete(tbl, seq, up, id) ==
    IF ~up
    THEN [res |-> Err(StoreError), users |-> tbl, next_id |-> seq]
    ELSE [res |-> Ok(Unit), users |-> { r \in tbl : r.id # id },
          next_id |-> seq]

\* SELECT COUNT(*) FROM users
DbUser_count(tbl, seq, up) ==
    IF ~up
    THEN [res |-> Err(StoreError), users |-> tbl, next_id |-> seq]
    ELSE [res |-> Ok(Cardinality(tbl)), users |-> tbl, next_id |-> seq]

\* SELECT 1
Database_ping(tbl, seq, up) ==
    IF ~up
    THEN [res |-> Err(StoreError), users |-> tbl, next_id |-> seq]
    ELSE [res |-> Ok(Unit), users |-> tbl, next_id |-> seq]

\* ------------------------------------------------------------ envelope
IsNone(o) == Len(o) = 0
IsSome(o) == Len(o) = 1

\* ApiResponse::success
ApiResponse_success(data) ==
    [success |-> TRUE, data |-> Some(data), error |-> None]

\* A mutant of ApiResponse_error: the message is given as data too.
ApiResponse_error_with_data(message) ==
    [success |-> FALSE, data |-> Some([t |-> "str", s |-> message]),
     error |-> Some(message)]

\* ApiResponse::error
ApiResponse_error(message) ==
    [success |-> FALSE, data |-> None, error |-> Some(message)]

\* enum ApiError
NotFound(msg) == [kind |-> "NotFound", msg |-> msg]
BadRequest(msg) == [kind |-> "BadRequest", msg |-> msg]
InternalError(msg) == [kind |-> "InternalError", msg |-> msg]
DatabaseError(msg) == [kind |-> "DatabaseError", msg |-> msg]

\* StatusCode
OK == 200
BAD_REQUEST == 400
NOT_FOUND == 404
INTERNAL_SERVER_ERROR == 500

\* impl From<DbUser> for UserResponse: created_at is dropped.
UserResponse_from(user) ==
    [t |-> "UserResponse", id |-> user.id, name |-> user.name,
     email |-> user.email, active |-> user.active]

Str(s) == [t |-> "str", s |-> s]
Vec(items) == [t |-> "Vec", items |-> items]
Value(v) == [t |-> "Value", v |-> v]

\* --------------------------------------------------- JSON serialization
JNull == [j |-> "null"]
JString(s) == [j |-> "string", s |-> s]

\* #[derive(Serialize)] UserResponse
UserResponse_to_json(u) ==
    [j |-> "object", id |-> u.id, name |-> u.name, email |-> u.email,
     active |-> u.active]

\* serde's serialization of the payload types the handlers use: the unit
\* value is written as null.
ToJson(v) ==
    CASE v.t = "unit" -> JNull
      [] v.t = "str" -> JString(v.s)
      [] v.t = "UserResponse" -> UserResponse_to_json(v)
      [] v.t = "Vec" ->
            [j |-> "array",
             items |-> [i \in 1..Len(v.items) |->
                            UserResponse_to_json(v.items[i])]]
      [] v.t = "Value" -> v.v

\* #[derive(Serialize)] ApiResponse<T>: an Option is written as its value,
\* or as null when it is None.
ApiResponse_to_json(r) ==
    [success |-> r.success,
     data |-> IF IsNone(r.data) THEN JNull ELSE ToJson(r.data[1]),
     error |-> IF IsNone(r.error) THEN JNull ELSE JString(r.error[1])]

\* impl IntoResponse for Json<ApiResponse<T>>
Json_into_response(r) == [status |-> OK, body |-> ApiResponse_to_json(r)]

\* impl IntoResponse for ApiError
ApiError_into_response(e) ==
    LET status == CASE e.kind = "NotFound" -> NOT_FOUND
                    [] e.kind = "BadRequest" -> BAD_REQUEST
                    [] e.kind = "InternalError" -> INTERNAL_SERVER_ERROR
                    [] e.kind = "DatabaseError" -> INTERNAL_SERVER_ERROR
    IN  [status |-> status,
         body |-> ApiResponse_to_json(ApiResponse_error(e.msg))]

\* impl IntoResponse for Result<Json<ApiResponse<T>>, ApiError>
IntoResponse(out) ==
    IF out.ok THEN Json_into_response(out.val)
    ELSE ApiError_into_response(out.err)

\* ------------------------------------------------------------- handlers
\* A handler yields [out, users, next_id, ret]: the Result it returns,
\* the store it leaves and the results of the store calls it made.

\* ValidationErrors::to_string: the fields that failed.
ValidationMessage(payload) ==
    (IF ValidateLength(payload.name) THEN "" ELSE "name: length; ")
    \o (IF ValidateEmail(payload.email) THEN "" ELSE "email: email; ")

Call(name, c) == [call |-> name, res |-> c.res]

list_users(tbl, seq, up) ==
    LET c == DbUser_list_all(tbl, seq, up)
    IN  IF ~c.res.ok
        THEN [out |-> Err(DatabaseError(c.res.err)), users |-> c.users,
              next_id |-> c.next_id, ret |-> << Call("list_all", c) >>]
        ELSE LET response == [i \in 1..Len(c.res.val) |->
                                  UserResponse_from(c.res.val[i])]
             IN  [out |-> Ok(ApiResponse_success(Vec(response))),
                  users |-> c.users, next_id |-> c.next_id,
                  ret |-> << Call("list_all", c) >>]

create_user(tbl, seq, up, payload, env) ==
    IF ~Validate(payload)
    THEN [out |-> Err(BadRequest(ValidationMessage(payload))), users |-> tbl,
          next_id |-> seq, ret |-> << >>]
    ELSE LET c == DbUser_create(tbl, seq, up, payload.name, payload.email, env)
         IN  IF ~c.res.ok
             THEN [out |-> Err(DatabaseError(c.res.err)), users |-> c.users,
                   next_id |-> c.next_id, ret |-> << Call("create", c) >>]
             ELSE [out |-> Ok(ApiResponse_success(UserResponse_from(c.res.val))),
                   users |-> c.users, next_id |-> c.next_id,
                   ret |-> << Call("create", c) >>]

NotFoundMessage(id) == "User with id " \o ToString(id) \o " not found"

get_user(tbl, seq, up, id) ==
    LET c == DbUser_find_by_id(tbl, seq, up, id)
    IN  IF ~c.res.ok
        THEN [out |-> Err(DatabaseError(c.res.err)), users |-> c.users,
              next_id |-> c.next_id, ret |-> << Call("find_by_id", c) >>]
        ELSE IF IsNone(c.res.val)
        THEN [out |-> Err(NotFound(NotFoundMessage(id))), users |-> c.users,
              next_id |-> c.next_id, ret |-> << Call("find_by_id", c) >>]
        ELSE [out |-> Ok(ApiResponse_success(UserResponse_from(c.res.val[1]))),
              users |-> c.users, next_id |-> c.next_id,
              ret |-> << Call("find_by_id", c) >>]

\* A mutant of delete_user: the result of the store call is dropped.
delete_user_ignores_failure(tbl, seq, up, id) ==
    LET c == DbUser_delete(tbl, seq, up, id)
    IN  [out |-> Ok(ApiResponse_success(Unit)), users |-> c.users,
         next_id |-> c.next_id, ret |-> << Call("delete", c) >>]

delete_user(tbl, seq, up, id) ==
    LET c == DbUser_delete(tbl, seq, up, id)
    IN  IF ~c.res.ok
        THEN [out |-> Err(DatabaseError(c.res.err)), users |-> c.users,
              next_id |-> c.next_id, ret |-> << Call("delete", c) >>]
        ELSE [out |-> Ok(ApiResponse_success(Unit)), users |-> c.users,
              next_id |-> c.next_id, ret |-> << Call("delete", c) >>]

health_check(tbl, seq, up) ==
    [out |-> Ok(ApiResponse_success(Str("healthy"))), users |-> tbl,
     next_id |-> seq, ret |-> << >>]

readiness_check(tbl, seq, up) ==
    LET c == Database_ping(tbl, seq, up)
    IN  IF ~c.res.ok
        THEN [out |-> Err(InternalError("Database not ready: " \o c.res.err)),
              users |-> c.users, next_id |-> c.next_id,
              ret |-> << Call("ping", c) >>]
        ELSE [out |-> Ok(ApiResponse_success(Str("ready"))),
              users |-> c.users, next_id |-> c.next_id,
              ret |-> << Call("ping", c) >>]

PkgVersion == "CARGO_PKG_VERSION"

root(tbl, seq, up) ==
    [out |-> Ok(ApiResponse_success(Value(
                [j |-> "object", name |-> "Rust App API",
                 version |-> PkgVersion,
                 endpoints |-> << "/health", "/ready", "/version",
                                  "/api/users" >>]))),
     users |-> tbl, next_id |-> seq, ret |-> << >>]

version(tbl, seq, up) ==
    [out |-> Ok(ApiResponse_success(Value(
                [j |-> "object", version |-> PkgVersion,
                 rust_version |-> "CARGO_PKG_RUST_VERSION"]))),
     users |-> tbl, next_id |-> seq, ret |-> << >>]

\* ----------------------------------------------------------- middleware
\* A mutant of is_server_error: client errors count too.
is_any_error(status) == status >= 400 /\ status < 600

\* StatusCode::is_server_error
is_server_error(status) == status >= 500 /\ status < 600

LogRecord(level, r, status, message) ==
    [level |-> level, method |-> r.method, uri |-> r.uri, status |-> status,
     message |-> message]

\* log_requests once next.run(req) has given its response: the records it
\* emits and the response it returns.
log_requests(r, response) ==
    [records |->
        IF is_server_error(response.status)
        THEN << LogRecord("WARN", r, response.status,
                          "Request completed with error") >>
        ELSE << LogRecord("INFO", r, response.status, "Request completed") >>,
     response |-> response]

\* ------------------------------------------------------------- requests
UserUri(id) == "/api/users/" \o ToString(id)

\* The bodies POST /api/users is sent: every name with a valid email, and
\* every email with a valid name.
Payloads ==
    { [name |-> n, email |-> EmailAnn] : n \in Names }
    \cup { [name |-> NameAnn, email |-> e] : e \in Emails }

\* What the store may do at an insert: refuse the row, or accept it at
\* some time of its clock.
Envs ==
    { [reject |-> TRUE] } \cup { [reject |-> FALSE, ts |-> t] : t \in Timestamps }

\* The rows a direct caller may hand to update.
UpdateUsers ==
    [id : ReqIds, name : RepoNames, email : RepoEmails, active : BOOLEAN,
     created_at : { None }]

\* ---------------------------------------------------------------- Init
Init ==
    /\ users = {}
    /\ next_id = 1
    /\ store_up = TRUE
    /\ pc = "idle"
    /\ req = [op |-> "none"]
    /\ ret = << >>
    /\ inner = None
    /\ resp = None
    /\ log = << >>
    /\ lib = [fn |-> "none"]
    /\ lib_user = None
    /\ cli = [pc |-> "none"]

\* -------------------------------------------------------------- actions
\* log_requests up to its await: the request r is routed to its handler,
\* whose result h is turned into the inner response.
Serve(r, h) ==
    /\ pc = "idle"
    /\ h.next_id <= MaxId + 1
    /\ req' = r
    /\ users' = h.users
    /\ next_id' = h.next_id
    /\ ret' = h.ret
    /\ inner' = Some(IntoResponse(h.out))
    /\ resp' = None
    /\ log' = << >>
    /\ pc' = "handled"
    /\ UNCHANGED << store_up, libvars >>

\* log_requests after its await: the record is emitted and the response
\* returned.
LogRequestsReturn ==
    /\ pc = "handled"
    /\ LET m == log_requests(req, inner[1])
       IN  /\ log' = log \o m.records
           /\ resp' = Some(m.response)
    /\ pc' = "idle"
    /\ UNCHANGED << users, next_id, store_up, req, ret, inner, libvars >>

GetHealth ==
    Serve([op |-> "health_check", method |-> "GET", uri |-> "/health"],
          health_check(users, next_id, store_up))

GetReady ==
    Serve([op |-> "readiness_check", method |-> "GET", uri |-> "/ready"],
          readiness_check(users, next_id, store_up))

GetRoot ==
    Serve([op |-> "root", method |-> "GET", uri |-> "/"],
          root(users, next_id, store_up))

GetVersion ==
    Serve([op |-> "version", method |-> "GET", uri |-> "/version"],
          version(users, next_id, store_up))

GetUsers ==
    Serve([op |-> "list_users", method |-> "GET", uri |-> "/api/users"],
          list_users(users, next_id, store_up))

PostUsers ==
    \E payload \in Payloads, env \in Envs :
        Serve([op |-> "create_user", method |-> "POST", uri |-> "/api/users",
               payload |-> payload],
              create_user(users, next_id, store_up, payload, env))

GetUser ==
    \E id \in ReqIds :
        Serve([op |-> "get_user", method |-> "GET", uri |-> UserUri(id),
               id |-> id],
              get_user(users, next_id, store_up, id))

DeleteUser ==
    \E id \in ReqIds :
        Serve([op |-> "delete_user", method |-> "DELETE", uri |-> UserUri(id),
               id |-> id],
              delete_user(users, next_id, store_up, id))

\* A direct call of the repository: c is what the call yields.
Repo(r, name, c) ==
    /\ pc = "idle"
    /\ req' = r
    /\ users' = c.users
    /\ next_id' = c.next_id
    /\ ret' = << Call(name, c) >>
    /\ inner' = None
    /\ resp' = None
    /\ log' = << >>
    /\ UNCHANGED << store_up, pc, libvars >>

RepoUpdate ==
    \E user \in UpdateUsers :
        Repo([op |-> "DbUser::update", user |-> user], "update",
             DbUser_update(users, next_id, store_up, user))

RepoCount ==
    Repo([op |-> "DbUser::count"], "count",
         DbUser_count(users, next_id, store_up))

\* The store stops answering, or answers again.
StoreFlip ==
    /\ store_up' = ~store_up
    /\ UNCHANGED << users, next_id, pc, req, ret, inner, resp, log, libvars >>

Next ==
    \/ GetHealth
    \/ GetReady
    \/ GetRoot
    \/ GetVersion
    \/ GetUsers
    \/ PostUsers
    \/ GetUser
    \/ DeleteUser
    \/ LogRequestsReturn
    \/ RepoUpdate
    \/ RepoCount
    \/ StoreFlip

Spec == Init /\ [][Next]_vars

\* =============================================================== claims
\* A step in which log_requests hands a request of the given kind to its
\* handler.
Handles(op) == pc = "idle" /\ pc' = "handled" /\ req'.op = op

\* A step that is a direct call of the given repository operation.
Calls(op) == pc' = pc /\ store_up' = store_up /\ req'.op = op

\* The first (and only) store call of the operation in progress.
FirstCall == ret[1].res

\* The response the handler of the operation in progress gave.
Inner == inner[1]

\* The last response returned to a client.
Resp == resp[1]

\* The emails of the samples that are valid addresses.
ValidEmails == { EmailAnn, EmailBob }

\* ------------------------------------------------------------------ C1
\* C1: with the store answering and accepting the row, POST /api/users
\* with a valid name and email returns 200 with the id the store
\* generated (the serial's value, which no row had) and active = true; a
\* GET /api/users/:id for that id that follows returns 200 with the same
\* id, name, email and active; and a GET /api/users/:id that follows a
\* DELETE /api/users/:id of the same id returns 404.
C1_Created ==
    Handles("create_user") /\ Len(ret') = 1 /\ ret'[1].res.ok
    => /\ inner'[1].status = 200
       /\ inner'[1].body.success
       /\ inner'[1].body.data =
              [j |-> "object", id |-> next_id, name |-> req'.payload.name,
               email |-> req'.payload.email, active |-> TRUE]
       /\ ~HasRow(users, next_id)
       /\ HasRow(users', next_id)

C1_Fetched ==
    /\ req.op = "create_user" /\ pc = "idle" /\ Resp.status = 200
    /\ Handles("get_user") /\ req'.id = Resp.body.data.id /\ store_up
    => /\ inner'[1].status = 200
       /\ inner'[1].body.data = Resp.body.data

C1_Gone ==
    /\ req.op = "delete_user" /\ pc = "idle" /\ Resp.status = 200
    /\ Handles("get_user") /\ req'.id = req.id /\ store_up
    => inner'[1].status = 404

C1_CreateGetDeleteGet ==
    [][C1_Created /\ C1_Fetched /\ C1_Gone]_vars

\* A GET answered 404 for an id the serial has handed out: the row was
\* created by a POST and removed by a DELETE.
C1_Witness ==
    /\ pc = "idle" /\ req.op = "get_user" /\ IsSome(resp)
    /\ Resp.status = 404 /\ req.id < next_id /\ users # {}

\* ------------------------------------------------------------------ C2
\* C2: POST /api/users with a name of length 0 or of more than 255
\* characters, or with an email that is not a valid address, returns 400
\* and makes no store call: the rows of the users table and the serial
\* are as before.
C2_Invalid(payload) ==
    \/ Len(payload.name) = 0
    \/ Len(payload.name) > 255
    \/ payload.email \notin ValidEmails

C2_ValidationShortCircuits ==
    [][Handles("create_user") /\ C2_Invalid(req'.payload)
       => /\ inner'[1].status = 400
          /\ ret' = << >>
          /\ users' = users
          /\ next_id' = next_id]_vars

\* A request with a name one character too long was refused while the
\* table held rows.
C2_Witness ==
    /\ pc = "handled" /\ req.op = "create_user"
    /\ Len(req.payload.name) = 256 /\ req.payload.email \in ValidEmails
    /\ Inner.status = 400 /\ users # {}

\* ------------------------------------------------------------------ C3
\* C3: with the store answering, find_by_id for an id no row has returns
\* Ok(None), not an error, and leaves the store as it was; get_user
\* answers 404 then.
C3_AbsentIsNotFound ==
    [][Handles("get_user") /\ store_up /\ ~HasRow(users, req'.id)
       => /\ Len(ret') = 1
          /\ ret'[1].call = "find_by_id"
          /\ ret'[1].res.ok
          /\ IsNone(ret'[1].res.val)
          /\ users' = users
          /\ next_id' = next_id
          /\ inner'[1].status = 404
          /\ inner'[1].status \notin { 200, 500 }]_vars

\* get_user looked for an id that no row of a non-empty table has.
C3_Witness ==
    /\ pc = "handled" /\ req.op = "get_user" /\ ~HasRow(users, req.id)
    /\ users # {} /\ FirstCall.ok /\ Inner.status = 404

\* ------------------------------------------------------------------ C4
\* C4: with the store answering, delete(id) removes the row with that id
\* and no other row, and when no row has that id it succeeds and leaves
\* the table as it was (so a second delete of the same id changes
\* nothing); DELETE /api/users/:id answers 200 with a success envelope
\* whether or not the user existed.
C4_DeleteRemovesOnlyThatRow ==
    [][Handles("delete_user") /\ store_up
       => /\ users' = users \ RowsOf(users, req'.id)
          /\ (~HasRow(users, req'.id) => users' = users)
          /\ next_id' = next_id
          /\ Len(ret') = 1
          /\ ret'[1].res.ok
          /\ inner'[1].status = 200
          /\ inner'[1].body.success
          /\ inner'[1].body.error = JNull]_vars

\* DELETE answered 200 for an id the serial has handed out, and other
\* rows are still there.
C4_Witness ==
    /\ pc = "handled" /\ req.op = "delete_user" /\ req.id < next_id
    /\ FirstCall.ok /\ Inner.status = 200 /\ users # {}

\* ------------------------------------------------------------------ C5
\* C5: with the store answering, update(user) overwrites name, email and
\* active of the row whose id is user.id and changes nothing else: that
\* row keeps its id and created_at, every other row is as it was, and
\* when no row has user.id it returns success and the table is as it was
\* (no row is inserted).
C5_Updated(tbl, user) ==
    { IF r.id = user.id
      THEN [id |-> r.id, name |-> user.name, email |-> user.email,
            active |-> user.active, created_at |-> r.created_at]
      ELSE r : r \in tbl }

C5_UpdateOverwritesOneRow ==
    [][Calls("DbUser::update") /\ store_up
       => /\ Len(ret') = 1
          /\ ret'[1].res.ok
          /\ users' = C5_Updated(users, req'.user)
          /\ (~HasRow(users, req'.user.id) => users' = users)
          /\ Cardinality(users') = Cardinality(users)
          /\ next_id' = next_id]_vars

\* An update rewrote one row of two: the row carries what was passed and
\* a created_at of its own, and another row differs in all three fields.
C5_Witness ==
    /\ req.op = "DbUser::update" /\ FirstCall.ok
    /\ \E r \in users, q \in users :
          /\ r.id = req.user.id
          /\ r.name = req.user.name /\ r.email = req.user.email
          /\ r.active = req.user.active /\ r.active = FALSE
          /\ r.created_at # req.user.created_at
          /\ q.id # r.id /\ q.name # r.name /\ q.email # r.email
          /\ q.active # r.active

\* ------------------------------------------------------------------ C6
\* C6: in every reachable store state no two rows share an id, and no
\* step changes the id of a row: an id that appears is the serial's fresh
\* value, given to a created row, and a step that neither creates nor
\* deletes a row leaves the ids of the rows as they were.
C6_UniqueIds == \A r \in users, q \in users : r.id = q.id => r = q

C6_IdStep ==
    /\ \A i \in IdsOf(users') \ IdsOf(users) :
          i = next_id /\ next_id' > next_id
    /\ \A r \in users' : r.id < next_id'
    /\ next_id' >= next_id
    /\ (Cardinality(users') = Cardinality(users)
           => IdsOf(users') = IdsOf(users))
    /\ (req'.op = "DbUser::update" => IdsOf(users') = IdsOf(users))

C6_IdUniqueAndImmutable == [](C6_UniqueIds) /\ [][C6_IdStep]_vars

\* Two rows are there after a create, an update and a delete have each
\* been made: the update was the last of them.
C6_Witness ==
    /\ req.op = "DbUser::update" /\ FirstCall.ok
    /\ HasRow(users, req.user.id)
    /\ Cardinality(users) = 2
    /\ Cardinality(IdsOf(users)) = 2
    /\ next_id > 2

\* ------------------------------------------------------------------ C7
\* C7: list_all returns exactly the rows of the table at the time of the
\* query, each once, in strictly ascending order of id, and list_users
\* returns them in that order.
C7_ListInIdOrder ==
    req.op = "list_users" /\ FirstCall.ok
    => LET rows == FirstCall.val
           items == Inner.body.data.items
       IN  /\ { rows[i] : i \in 1..Len(rows) } = users
           /\ Len(rows) = Cardinality(users)
           /\ \A i \in 1..Len(rows), k \in 1..Len(rows) :
                 i < k => rows[i].id < rows[k].id
           /\ Inner.status = 200
           /\ Len(items) = Len(rows)
           /\ \A i \in 1..Len(rows) :
                 items[i] = [j |-> "object", id |-> rows[i].id,
                             name |-> rows[i].name, email |-> rows[i].email,
                             active |-> rows[i].active]

\* A list of two users of which the one with the greater id was created
\* earlier in the day.
C7_Witness ==
    /\ pc = "idle" /\ req.op = "list_users" /\ IsSome(resp)
    /\ Resp.status = 200 /\ Len(Resp.body.data.items) >= 2
    /\ \E r \in users, q \in users :
          r.id < q.id /\ r.created_at[1] > q.created_at[1]

\* ------------------------------------------------------------------ C8
\* C8 as stated: every response body is success = true with data present
\* and error null, on 200, or success = false with data null and error a
\* message, on 400, 404 or 500.
C8_TwoShapes ==
    IsSome(inner)
    => LET b == Inner.body
       IN  \/ /\ b.success /\ Inner.status = 200
              /\ b.data.j # "null" /\ b.error.j = "null"
           \/ /\ ~b.success /\ Inner.status \in { 400, 404, 500 }
              /\ b.data.j = "null" /\ b.error.j = "string"

\* C8 as amended: every response a handler of the API gives is
\* success = true with error null, on 200, where data is present except
\* in delete_user's response, whose data is the unit value and is written
\* as null; or success = false with data null and error a message, on
\* 400, 404 or 500.  No response has both data and error set, and only
\* delete_user's success has neither.
C8_TwoShapesButDelete ==
    IsSome(inner)
    => LET b == Inner.body
       IN  /\ \/ /\ b.success /\ Inner.status = 200
                 /\ b.error.j = "null"
                 /\ (b.data.j = "null" <=> req.op = "delete_user")
              \/ /\ ~b.success /\ Inner.status \in { 400, 404, 500 }
                 /\ b.data.j = "null" /\ b.error.j = "string"
           /\ ~(b.data.j # "null" /\ b.error.j # "null")

\* A successful delete_user was answered with neither data nor error.
C8_Witness ==
    /\ pc = "idle" /\ req.op = "delete_user" /\ IsSome(resp)
    /\ Resp.status = 200 /\ Resp.body.success
    /\ Resp.body.data = JNull /\ Resp.body.error = JNull

\* ------------------------------------------------------------------ C9
\* C9: when the store call of list_users, create_user, get_user,
\* delete_user or readiness_check fails, the handler makes no further
\* store call and answers 500 with an error envelope; /health answers 200
\* "healthy" whatever the state of the store, without calling it.
C9_StoreOps ==
    { "list_users", "create_user", "get_user", "delete_user",
      "readiness_check" }

C9_Failed ==
    /\ IsSome(inner) /\ (\E i \in 1..Len(ret) : ~ret[i].res.ok)
       => /\ req.op \in C9_StoreOps
          /\ Len(ret) = 1
          /\ Inner.status = 500
          /\ ~Inner.body.success
          /\ Inner.body.data.j = "null"
          /\ Inner.body.error.j = "string"
    /\ IsSome(inner) => Len(ret) <= 1
    /\ req.op = "health_check"
       => /\ ret = << >>
          /\ Inner.status = 200
          /\ Inner.body.success
          /\ Inner.body.data = JString("healthy")

\* While the store is down every handler that reaches it answers 500
\* and leaves the store as it was.
C9_DownStep ==
    /\ pc = "idle" /\ pc' = "handled" /\ ~store_up
    /\ req'.op \in C9_StoreOps
    /\ (req'.op = "create_user" => ret' # << >>)
    => /\ Len(ret') = 1
       /\ ~ret'[1].res.ok
       /\ inner'[1].status = 500
       /\ users' = users
       /\ next_id' = next_id

C9_FailureSurfacesAs500 == [](C9_Failed) /\ [][C9_DownStep]_vars

\* A delete_user whose store call failed was answered 500 while the
\* store was down.
C9_Witness ==
    /\ pc = "handled" /\ req.op = "delete_user" /\ ~store_up
    /\ Len(ret) = 1 /\ ~FirstCall.ok /\ Inner.status = 500 /\ users # {}

\* ----------------------------------------------------------------- C10
\* C10: log_requests returns the response of the inner handler as it is,
\* emits one log record for the request, after the handler has
\* completed, and that record is a warning exactly when the status is
\* 5xx: it is informational for every other status, 400 and 404
\* included.
C10_LogsOnceAndPassesThrough ==
    /\ pc = "handled" => log = << >> /\ resp = None /\ IsSome(inner)
    /\ pc = "idle" /\ IsSome(inner)
       => /\ resp = inner
          /\ Len(log) = 1
          /\ log[1].level \in { "WARN", "INFO" }
          /\ (log[1].level = "WARN"
                 <=> Inner.status >= 500 /\ Inner.status <= 599)
          /\ log[1].status = Inner.status
          /\ log[1].method = req.method
          /\ log[1].uri = req.uri

\* A 404 was returned and logged as informational.
C10_Witness ==
    /\ pc = "idle" /\ IsSome(resp) /\ Resp.status = 404
    /\ Len(log) = 1 /\ log[1].level = "INFO" /\ log[1].status = 404

\* ======================================================== the library
\* src/src/lib.rs and the functions of src/src/main.rs: pure functions and
\* the User value.  A call is recorded in lib: the function, its input
\* and what it gave.

\* ------------------------------------------------------------- bounds
\* fibonacci is called with 0..MaxFibN.  The sums stay far below 2^64 in
\* this range (F(93) is the last to fit), so no addition overflows.
MaxFibN == 16

appvars == << users, next_id, store_up, pc, req, ret, inner, resp, log >>

\* A library call, on its own: nothing but the record of it changes.
Lib(call) ==
    /\ lib.fn = "none"
    /\ lib' = call
    /\ UNCHANGED << appvars, lib_user, cli >>

\* ---------------------------------------------------------- fibonacci
\* for _ in i..=n { let next = prev + curr; prev = curr; curr = next; }
RECURSIVE FibLoop(_, _, _, _)
FibLoop(i, n, prev, curr) ==
    IF i > n THEN curr ELSE FibLoop(i + 1, n, curr, prev + curr)

\* The loop runs from 1, one round too many.
fibonacci_optimized_from_one(n) ==
    IF n = 0 THEN 0
    ELSE IF n = 1 THEN 1
    ELSE FibLoop(1, n, 0, 1)

fibonacci_optimized(n) ==
    IF n = 0 THEN 0
    ELSE IF n = 1 THEN 1
    ELSE FibLoop(2, n, 0, 1)

\* main.rs: the naive recursion.
RECURSIVE fibonacci(_)
fibonacci(n) ==
    CASE n = 0 -> 0
      [] n = 1 -> 1
      [] OTHER -> fibonacci(n - 1) + fibonacci(n - 2)

CallFibonacciOptimized ==
    \E n \in 0..MaxFibN :
        Lib([fn |-> "fibonacci_optimized", n |-> n,
             out |-> fibonacci_optimized(n)])

CallFibonacci ==
    \E n \in 0..MaxFibN :
        Lib([fn |-> "fibonacci", n |-> n, out |-> fibonacci(n)])

\* C11: for every n, the iterative fibonacci_optimized(n) and the naive
\* recursive fibonacci(n) give the same value, which is 0 for n = 0 and 1
\* for n = 1.
C11_FibonacciAgree ==
    /\ lib.fn = "fibonacci_optimized" =>
          /\ lib.out = fibonacci(lib.n)
          /\ lib.n = 0 => lib.out = 0
          /\ lib.n = 1 => lib.out = 1
    /\ lib.fn = "fibonacci" =>
          /\ lib.out = fibonacci_optimized(lib.n)
          /\ lib.n = 0 => lib.out = 0
          /\ lib.n = 1 => lib.out = 1

\* fibonacci_optimized(10) was called and gave 55, as the naive one does.
C11_Witness ==
    /\ lib.fn = "fibonacci_optimized"
    /\ lib.n = 10
    /\ lib.out = 55
    /\ fibonacci(10) = 55

\* ---------------------------------------------------------- factorial
\* factorial is called with 0..MaxFactN: 20! is the last to fit in 64 bits.
MaxFactN == 22

\* A u64 is four limbs of 16 bits, the least significant first.
Limb == 65536
U64Limbs == 4

\* The u64 of a small number (below 2^31).
U64Of(n) == << n % Limb, (n \div Limb) % Limb, 0, 0 >>

\* How a call ends: it returns a value, or the thread panics.
Returns(v) == [returned |-> TRUE, val |-> v]
Panics(msg) == [returned |-> FALSE, panic |-> msg]

\* The limbs of x * k + carry for a small k, and the carry out of the last.
RECURSIVE MulLimbs(_, _, _, _)
MulLimbs(x, k, i, carry) ==
    IF i > Len(x) THEN [limbs |-> << >>, carry |-> carry]
    ELSE LET t == x[i] * k + carry
             r == MulLimbs(x, k, i + 1, t \div Limb)
         IN  [limbs |-> << t % Limb >> \o r.limbs, carry |-> r.carry]

\* a * b on u64 as the build compiles it: with overflow checks the thread
\* panics when the product does not fit, without them the product wraps.
MulU64(a, k, overflow_checks) ==
    LET m == MulLimbs(a, k, 1, 0)
    IN  IF m.carry # 0 /\ overflow_checks
        THEN Panics("attempt to multiply with overflow")
        ELSE Returns(m.limbs)

\* (i..=n).product(): fold(1, |a, b| a * b), the checks of the crate
\* inherited.
RECURSIVE Product(_, _, _, _)
Product(i, n, acc, overflow_checks) ==
    IF i > n THEN Returns(acc)
    ELSE LET m == MulU64(acc, i, overflow_checks)
         IN  IF m.returned THEN Product(i + 1, n, m.val, overflow_checks)
             ELSE m

\* The range excludes n: (2..n).product().
factorial_exclusive(n, overflow_checks) ==
    IF n \in { 0, 1 } THEN Returns(U64Of(1))
    ELSE Product(2, n - 1, U64Of(1), overflow_checks)

factorial(n, overflow_checks) ==
    IF n \in { 0, 1 } THEN Returns(U64Of(1))
    ELSE Product(2, n, U64Of(1), overflow_checks)

\* The build is not fixed by the sources: a profile with overflow checks
\* (dev, test) and one without (release, bench) are both built.
CallFactorial ==
    \E n \in 0..MaxFactN, overflow_checks \in BOOLEAN :
        Lib([fn |-> "factorial", n |-> n, overflow_checks |-> overflow_checks,
             out |-> factorial(n, overflow_checks)])

\* The mathematical n!, in as many limbs as it takes (no leading zero limb).
ExactMul(x, k) ==
    LET m == MulLimbs(x, k, 1, 0)
    IN  IF m.carry = 0 THEN m.limbs ELSE m.limbs \o << m.carry >>

RECURSIVE ExactFactorial(_)
ExactFactorial(n) ==
    IF n <= 1 THEN << 1 >> ELSE ExactMul(ExactFactorial(n - 1), n)

FitsU64(x) == Len(x) <= U64Limbs

\* x in exactly four limbs, when it fits.
AsU64(x) == [i \in 1..U64Limbs |-> IF i <= Len(x) THEN x[i] ELSE 0]

\* C12: whenever n! exceeds the 64-bit unsigned range (n >= 21),
\* factorial(n) fails with an arithmetic overflow; it never returns a
\* wrapped value.
C12_OverflowFails ==
    lib.fn = "factorial" =>
        /\ FitsU64(ExactFactorial(lib.n)) <=> lib.n <= 20
        /\ ~FitsU64(ExactFactorial(lib.n)) => ~lib.out.returned

\* What happens instead: without overflow checks factorial(21) returns
\* 21! mod 2^64 = 14197454024290336768 = 0xC5077D36B8C40000.
C12_Wrapped ==
    /\ lib.fn = "factorial"
    /\ lib.n = 21
    /\ ~lib.overflow_checks
    /\ lib.out = Returns(<< 0, 47300, 32054, 50439 >>)

\* C13: factorial(0) = factorial(1) = 1, and for every n of 2..20, whose
\* factorial fits in 64 bits, factorial(n) is the product of 2..n:
\* factorial(5) = 120, factorial(10) = 3628800.
C13_FactorialIsProduct ==
    lib.fn = "factorial" /\ lib.n <= 20 =>
        /\ FitsU64(ExactFactorial(lib.n))
        /\ lib.out = Returns(AsU64(ExactFactorial(lib.n)))
        /\ lib.n \in { 0, 1 } => lib.out = Returns(U64Of(1))
        /\ lib.n = 5 => lib.out = Returns(U64Of(120))
        /\ lib.n = 10 => lib.out = Returns(U64Of(3628800))

\* factorial(20) was called and returned 20! = 2432902008176640000 =
\* 0x21C3677C82B40000, the largest that fits.
C13_Witness ==
    /\ lib.fn = "factorial"
    /\ lib.n = 20
    /\ lib.out = Returns(<< 0, 33460, 26492, 8643 >>)

\* ----------------------------------------------------------- is_prime
\* is_prime is called with 0..MaxPrimeN.
MaxPrimeN == 1000

\* (n as f64).sqrt() as u64: up to 2^52 the conversion is exact and the
\* square root correctly rounded, so the cast gives the integer square root.
RECURSIVE SqrtFrom(_, _)
SqrtFrom(k, n) == IF (k + 1) * (k + 1) > n THEN k ELSE SqrtFrom(k + 1, n)

sqrt_as_u64(n) == SqrtFrom(0, n)

is_multiple_of(n, d) == n % d = 0

\* for i in (i..=limit).step_by(2) { if n.is_multiple_of(i) { return false; } }
RECURSIVE HasOddDivisor(_, _, _)
HasOddDivisor(n, i, limit) ==
    IF i > limit THEN FALSE
    ELSE IF is_multiple_of(n, i) THEN TRUE
    ELSE HasOddDivisor(n, i + 2, limit)

\* The range excludes the limit: 3..limit.
is_prime_below_limit(n) ==
    IF n < 2 THEN FALSE
    ELSE IF n = 2 THEN TRUE
    ELSE IF is_multiple_of(n, 2) THEN FALSE
    ELSE ~HasOddDivisor(n, 3, sqrt_as_u64(n) - 1)

is_prime(n) ==
    IF n < 2 THEN FALSE
    ELSE IF n = 2 THEN TRUE
    ELSE IF is_multiple_of(n, 2) THEN FALSE
    ELSE ~HasOddDivisor(n, 3, sqrt_as_u64(n))

CallIsPrime ==
    \E n \in 0..MaxPrimeN :
        Lib([fn |-> "is_prime", n |-> n, out |-> is_prime(n)])

\* C14: on every n of 0..1000, is_prime(n) is true exactly when n >= 2 and
\* no d with 2 <= d < n divides n: false below 2, true for 2, false for
\* every even n above 2, and as the tests list.
C14_IsPrimeIsTrialDivision ==
    lib.fn = "is_prime" =>
        /\ lib.out <=> (lib.n >= 2 /\ \A d \in 2..(lib.n - 1) : lib.n % d # 0)
        /\ lib.n < 2 => ~lib.out
        /\ lib.n = 2 => lib.out
        /\ lib.n > 2 /\ lib.n % 2 = 0 => ~lib.out
        /\ lib.n \in { 2, 3, 5, 7, 11, 13, 17, 19, 23, 29, 31 } => lib.out
        /\ lib.n \in { 0, 1, 4, 6, 8, 9, 10, 12, 14, 15, 16 } => ~lib.out

\* is_prime was called on 961 = 31 * 31, whose only odd divisor up to the
\* limit is the limit itself, and said no; 997 is prime.
C14_Witness ==
    /\ lib.fn = "is_prime"
    /\ lib.n = 961
    /\ sqrt_as_u64(961) = 31
    /\ ~lib.out
    /\ is_prime(997)

\* ------------------------------------------------------------ strings
\* A &str is its UTF-8 bytes; a char is its code point.
\* The strings handed to string_utils have up to MaxStrLen characters.
MaxStrLen == 3

Rev(q) == [i \in 1..Len(q) |-> q[Len(q) + 1 - i]]

\* The UTF-8 bytes of a char below U+10000.
encode_utf8(c) ==
    IF c < 128 THEN << c >>
    ELSE IF c < 2048 THEN << 192 + (c \div 64), 128 + (c % 64) >>
    ELSE << 224 + (c \div 4096), 128 + ((c \div 64) % 64), 128 + (c % 64) >>

\* collect::<String>(): the chars, encoded one after the other.
RECURSIVE collect(_)
collect(cs) ==
    IF cs = << >> THEN << >> ELSE encode_utf8(Head(cs)) \o collect(Tail(cs))

IsContinuation(s, i) == i <= Len(s) /\ s[i] \in 128..191

\* U+FFFD stands for bytes that are no UTF-8 (a &str holds none).
REPLACEMENT_CHARACTER == 65533

\* s.chars(): the bytes from i on, decoded.
RECURSIVE CharsFrom(_, _)
CharsFrom(s, i) ==
    IF i > Len(s) THEN << >>
    ELSE IF s[i] < 128 THEN << s[i] >> \o CharsFrom(s, i + 1)
    ELSE IF s[i] \in 192..223 /\ IsContinuation(s, i + 1)
         THEN << (s[i] - 192) * 64 + (s[i + 1] - 128) >> \o CharsFrom(s, i + 2)
    ELSE IF s[i] \in 224..239 /\ IsContinuation(s, i + 1)
                              /\ IsContinuation(s, i + 2)
         THEN << (s[i] - 224) * 4096 + (s[i + 1] - 128) * 64
                 + (s[i + 2] - 128) >> \o CharsFrom(s, i + 3)
    ELSE << REPLACEMENT_CHARACTER >> \o CharsFrom(s, i + 1)

chars(s) == CharsFrom(s, 1)

\* The characters of the samples: a, E, h, e with acute (U+00E9, two
\* bytes), the euro sign (U+20AC, three bytes).
SampleChars == { 97, 69, 104, 233, 8364 }

RECURSIVE CharSeqs(_)
CharSeqs(n) ==
    IF n = 0 THEN { << >> }
    ELSE CharSeqs(n - 1)
         \cup { Append(q, c) : q \in [1..(n - 1) -> SampleChars], c \in SampleChars }

\* "hello", "Rust", "aeiou": the strings of the tests.
TestStrings ==
    { << 104, 101, 108, 108, 111 >>, << 82, 117, 115, 116 >>,
      << 97, 101, 105, 111, 117 >> }

Strings == { collect(q) : q \in CharSeqs(MaxStrLen) } \cup TestStrings

\* ------------------------------------------------------------ reverse
\* The bytes are reversed, not the chars.
reverse_bytes(s) == Rev(s)

reverse(s) == collect(Rev(chars(s)))

CallReverse ==
    \E s \in Strings : Lib([fn |-> "reverse", s |-> s, out |-> reverse(s)])

\* C15: reverse gives the characters of its input in reverse order, and
\* reverse(reverse(s)) = s for every string s; reverse("hello") is "olleh".
C15_ReverseIsInvolution ==
    lib.fn = "reverse" =>
        /\ Len(chars(lib.out)) = Len(chars(lib.s))
        /\ \A i \in 1..Len(chars(lib.s)) :
               chars(lib.out)[i] = chars(lib.s)[Len(chars(lib.s)) + 1 - i]
        /\ reverse(lib.out) = lib.s
        /\ lib.s = << 104, 101, 108, 108, 111 >> =>
               lib.out = << 111, 108, 108, 101, 104 >>

\* reverse was called on h, e-acute, euro (six bytes) and gave euro,
\* e-acute, h: the bytes of each character in their order.
C15_Witness ==
    /\ lib.fn = "reverse"
    /\ lib.s = << 104, 195, 169, 226, 130, 172 >>
    /\ lib.out = << 226, 130, 172, 195, 169, 104 >>
    /\ reverse(lib.out) = lib.s

\* ------------------------------------------------------- count_vowels
\* char::to_ascii_lowercase: A..Z to a..z, every other char as it is.
to_ascii_lowercase(c) == IF c \in 65..90 THEN c + 32 ELSE c

\* matches!(c, 'a' | 'e' | 'i' | 'o' | 'u')
matches_vowel(c) == c \in { 97, 101, 105, 111, 117 }

\* The case is not folded: only a lower-case vowel matches.
count_vowels_case_sensitive(s) ==
    Cardinality({ i \in DOMAIN chars(s) : matches_vowel(chars(s)[i]) })

count_vowels(s) ==
    Cardinality({ i \in DOMAIN chars(s) :
                      matches_vowel(to_ascii_lowercase(chars(s)[i])) })

CallCountVowels ==
    \E s \in Strings :
        Lib([fn |-> "count_vowels", s |-> s, out |-> count_vowels(s)])

\* The lower-case form of a char of Basic Latin or Latin-1.
ToLowercase(c) ==
    IF c \in 65..90 \/ (c \in 192..222 /\ c # 215) THEN c + 32 ELSE c

\* The base letter of a lower-case vowel of Latin-1 under Unicode
\* normalization (a with grave .. a with ring, e with grave .. e with
\* diaeresis, and so on); every other char is its own base.
BaseLetter(c) ==
    CASE c \in 224..229 -> 97
      [] c \in 232..235 -> 101
      [] c \in 236..239 -> 105
      [] c \in 242..246 -> 111
      [] c \in 249..252 -> 117
      [] OTHER -> c

\* C16: count_vowels(s) counts the characters of s whose lower-case form
\* is one of a, e, i, o, u, without regard to case and Unicode-normalized:
\* an upper-case vowel counts as its lower-case form, and an accented
\* vowel (e with acute) counts as its base vowel.
C16_CountsNormalizedVowels ==
    lib.fn = "count_vowels" =>
        lib.out = Cardinality({ i \in DOMAIN chars(lib.s) :
                      matches_vowel(BaseLetter(ToLowercase(chars(lib.s)[i]))) })

\* What holds instead: the ASCII vowels are counted in either case
\* ("hello" 2, "Rust" 1, "aeiou" 5), and e with acute counts for nothing.
C16_CountsAsciiVowels ==
    lib.fn = "count_vowels" =>
        /\ lib.out = Cardinality({ i \in DOMAIN chars(lib.s) :
                         chars(lib.s)[i] \in { 97, 101, 105, 111, 117,
                                               65, 69, 73, 79, 85 } })
        /\ lib.s = << 104, 101, 108, 108, 111 >> => lib.out = 2
        /\ lib.s = << 82, 117, 115, 116 >> => lib.out = 1
        /\ lib.s = << 97, 101, 105, 111, 117 >> => lib.out = 5

\* count_vowels was called on a, E, e-acute and counted two.
C16_AccentNotCounted ==
    /\ lib.fn = "count_vowels"
    /\ chars(lib.s) = << 97, 69, 233 >>
    /\ lib.out = 2

\* ------------------------------------------ the library's specification
NextLib ==
    \/ CallFibonacciOptimized
    \/ CallFibonacci
    \/ CallFactorial
    \/ CallIsPrime
    \/ CallReverse
    \/ CallCountVowels

SpecLib == Init /\ [][NextLib]_vars

\* =============================================================== User
\* The User value of the library: User::new, activate, deactivate.

\* u64::MAX
U64Max == << Limb - 1, Limb - 1, Limb - 1, Limb - 1 >>

\* The ids, names and emails a caller builds a User from.  Nothing is
\* validated: any u64 and any two strings will do.  The names: "Alice";
\* a, a quote, a backslash and a line feed; e with acute and U+0001.
UserIds == { U64Of(0), U64Of(1), U64Of(42), U64Max }
UserNames ==
    { << 65, 108, 105, 99, 101 >>, << 97, 34, 92, 10 >>, << 195, 169, 1 >> }
UserEmails ==
    { << 97, 108, 105, 99, 101, 64, 101, 120, 97, 109, 112, 108, 101, 46,
         99, 111, 109 >>,
      << >> }

User_new(id, name, email) ==
    [id |-> id, name |-> name, email |-> email, active |-> TRUE]

\* deactivate flips the flag instead of clearing it.
User_deactivate_toggles(u) == [u EXCEPT !.active = ~u.active]

User_deactivate(u) == [u EXCEPT !.active = FALSE]

User_activate(u) == [u EXCEPT !.active = TRUE]

UserNew ==
    /\ lib_user = None
    /\ \E id \in UserIds, name \in UserNames, email \in UserEmails :
          /\ lib_user' = Some(User_new(id, name, email))
          /\ lib' = [fn |-> "User::new", id |-> id, name |-> name,
                     email |-> email]
    /\ UNCHANGED << appvars, cli >>

\* A call of a method taking &mut self on the value held.
UserCall(name, after) ==
    /\ lib_user # None
    /\ lib_user' = Some(after)
    /\ lib' = [fn |-> name, before |-> lib_user[1]]
    /\ UNCHANGED << appvars, cli >>

UserDeactivate == UserCall("User::deactivate", User_deactivate(lib_user[1]))

UserActivate == UserCall("User::activate", User_activate(lib_user[1]))

NextUser ==
    \/ UserNew
    \/ UserDeactivate
    \/ UserActivate

SpecUser == Init /\ [][NextUser]_vars

\* active is true iff the last call was activate, or there was none since
\* User::new.
C17_LastCallDecides ==
    lib_user # None =>
        (lib_user[1].active <=> lib.fn \in { "User::new", "User::activate" })

SameIdentity(u, v) == u.id = v.id /\ u.name = v.name /\ u.email = v.email

\* Neither operation changes id, name or email, and doing either twice is
\* doing it once.
C17_CallStep ==
    lib_user' # None /\ lib'.fn \in { "User::activate", "User::deactivate" } =>
        /\ SameIdentity(lib_user'[1], lib_user[1])
        /\ lib'.fn = "User::activate" =>
              /\ lib_user'[1].active
              /\ User_activate(lib_user'[1]) = lib_user'[1]
        /\ lib'.fn = "User::deactivate" =>
              /\ ~lib_user'[1].active
              /\ User_deactivate(lib_user'[1]) = lib_user'[1]
        /\ lib'.fn = lib.fn => lib_user' = lib_user

\* C17: User::new yields active = true; after any sequence of activate and
\* deactivate calls, active is true iff the last call was activate (or there
\* was none); each of the two is idempotent and neither changes id, name or
\* email.
C17_ActiveLifecycle ==
    /\ [](C17_LastCallDecides)
    /\ [][C17_CallStep]_vars

\* A user was deactivated and then activated again: it is active, with the
\* identity it was built with.
C17_Witness ==
    /\ lib.fn = "User::activate"
    /\ ~lib.before.active
    /\ lib_user[1].active
    /\ lib_user[1].id = U64Of(42)

\* --------------------------------------------------------- serde_json
\* #[derive(Serialize, Deserialize)] on User.  A JSON text is its bytes.

U64Zero == U64Of(0)

\* The limbs of x / d for a small d, from limb i down, and the remainder.
RECURSIVE DivLimbs(_, _, _, _)
DivLimbs(x, d, i, rem) ==
    IF i = 0 THEN [limbs |-> << >>, rem |-> rem]
    ELSE LET cur == rem * Limb + x[i]
             r == DivLimbs(x, d, i - 1, cur % d)
         IN  [limbs |-> Append(r.limbs, cur \div d), rem |-> r.rem]

\* The decimal digits of a u64 (itoa), none for zero.
RECURSIVE Digits(_)
Digits(x) ==
    IF x = U64Zero THEN << >>
    ELSE LET q == DivLimbs(x, 10, U64Limbs, 0)
         IN  Digits(q.limbs) \o << 48 + q.rem >>

serialize_u64(x) == IF x = U64Zero THEN << 48 >> ELSE Digits(x)

serialize_bool(b) ==
    IF b THEN << 116, 114, 117, 101 >> ELSE << 102, 97, 108, 115, 101 >>

HexDigit(n) == IF n < 10 THEN 48 + n ELSE 87 + n

\* serde_json's escape of one byte of a string: the quote and the
\* backslash behind a backslash, the control characters as \b \t \n \f \r
\* or \u00XX, every other byte as it is.
EscapeByte(b) ==
    CASE b = 34 -> << 92, 34 >>
      [] b = 92 -> << 92, 92 >>
      [] b = 8  -> << 92, 98 >>
      [] b = 9  -> << 92, 116 >>
      [] b = 10 -> << 92, 110 >>
      [] b = 12 -> << 92, 102 >>
      [] b = 13 -> << 92, 114 >>
      [] b < 32 -> << 92, 117, 48, 48, HexDigit(b \div 16), HexDigit(b % 16) >>
      [] OTHER  -> << b >>

RECURSIVE EscapeBytes(_)
EscapeBytes(s) ==
    IF s = << >> THEN << >> ELSE EscapeByte(Head(s)) \o EscapeBytes(Tail(s))

\* The string goes out between quotes with nothing escaped.
format_raw_str(s) == << 34 >> \o s \o << 34 >>

format_escaped_str(s) == << 34 >> \o EscapeBytes(s) \o << 34 >>

\* The field names, as bytes: id, name, email, active.
KeyId == << 105, 100 >>
KeyName == << 110, 97, 109, 101 >>
KeyEmail == << 101, 109, 97, 105, 108 >>
KeyActive == << 97, 99, 116, 105, 118, 101 >>

\* serde_json::to_string(&user): the fields in the order of the struct.
to_string(u) ==
    << 123 >> \o format_escaped_str(KeyId) \o << 58 >> \o serialize_u64(u.id)
    \o << 44 >> \o format_escaped_str(KeyName) \o << 58 >>
    \o format_escaped_str(u.name)
    \o << 44 >> \o format_escaped_str(KeyEmail) \o << 58 >>
    \o format_escaped_str(u.email)
    \o << 44 >> \o format_escaped_str(KeyActive) \o << 58 >>
    \o serialize_bool(u.active) \o << 125 >>

\* What a parser gives: a value and the position behind it, or a failure.
Parsed(v, pos) == [ok |-> TRUE, val |-> v, pos |-> pos]
Failed(msg) == [ok |-> FALSE, err |-> msg]

\* The byte at i, or -1 behind the end.
At(j, i) == IF i \in 1..Len(j) THEN j[i] ELSE -1

IsDigit(b) == b \in 48..57

HexValue(b) ==
    CASE b \in 48..57 -> b - 48
      [] b \in 97..102 -> b - 87
      [] b \in 65..70 -> b - 55
      [] OTHER -> -1

\* The char of \uXXXX at i (the four digits), or -1.
Hex4(j, i) ==
    LET h == [k \in 0..3 |-> HexValue(At(j, i + k))]
    IN  IF \E k \in 0..3 : h[k] < 0 THEN -1
        ELSE h[0] * 4096 + h[1] * 256 + h[2] * 16 + h[3]

\* The bytes an escape stands for (the byte behind the backslash), or none.
Unescape(b) ==
    CASE b = 34 -> << 34 >>
      [] b = 92 -> << 92 >>
      [] b = 47 -> << 47 >>
      [] b = 98 -> << 8 >>
      [] b = 102 -> << 12 >>
      [] b = 110 -> << 10 >>
      [] b = 114 -> << 13 >>
      [] b = 116 -> << 9 >>
      [] OTHER -> << >>

\* Prepends bytes to what the rest of a string parsed to.
Prepend(bytes, r) == IF r.ok THEN Parsed(bytes \o r.val, r.pos) ELSE r

\* parse_str: the string whose opening quote is just before i.
RECURSIVE StrBody(_, _)
StrBody(j, i) ==
    LET b == At(j, i)
    IN  CASE b = -1 -> Failed("EOF while parsing a string")
          [] b = 34 -> Parsed(<< >>, i + 1)
          [] b = 92 /\ At(j, i + 1) = 117 ->
                IF Hex4(j, i + 2) < 0 \/ Hex4(j, i + 2) \in 55296..57343
                THEN Failed("invalid escape")
                ELSE Prepend(encode_utf8(Hex4(j, i + 2)), StrBody(j, i + 6))
          [] b = 92 /\ At(j, i + 1) # 117 ->
                IF Unescape(At(j, i + 1)) = << >> THEN Failed("invalid escape")
                ELSE Prepend(Unescape(At(j, i + 1)), StrBody(j, i + 2))
          [] b \in 0..31 ->
                Failed("control character while parsing a string")
          [] OTHER -> Prepend(<< b >>, StrBody(j, i + 1))

deserialize_string(j, i) ==
    IF At(j, i) = 34 THEN StrBody(j, i + 1) ELSE Failed("expected a string")

\* The digits from i on, added to acc; a value beyond u64 is no u64.
RECURSIVE NumBody(_, _, _)
NumBody(j, i, acc) ==
    IF ~IsDigit(At(j, i)) THEN Parsed(acc, i)
    ELSE LET m == MulLimbs(acc, 10, 1, At(j, i) - 48)
         IN  IF m.carry # 0 THEN Failed("invalid type: expected u64")
             ELSE NumBody(j, i + 1, m.limbs)

deserialize_u64(j, i) ==
    CASE At(j, i) = 48 ->
            IF IsDigit(At(j, i + 1)) THEN Failed("invalid number")
            ELSE Parsed(U64Zero, i + 1)
      [] At(j, i) \in 49..57 -> NumBody(j, i, U64Zero)
      [] OTHER -> Failed("invalid type: expected u64")

deserialize_bool(j, i) ==
    IF i + 3 <= Len(j) /\ SubSeq(j, i, i + 3) = serialize_bool(TRUE)
    THEN Parsed(TRUE, i + 4)
    ELSE IF i + 4 <= Len(j) /\ SubSeq(j, i, i + 4) = serialize_bool(FALSE)
    THEN Parsed(FALSE, i + 5)
    ELSE Failed("invalid type: expected a boolean")

\* The value of the field key, at i.
deserialize_field(key, j, i) ==
    CASE key = KeyId -> deserialize_u64(j, i)
      [] key \in { KeyName, KeyEmail } -> deserialize_string(j, i)
      [] key = KeyActive -> deserialize_bool(j, i)
      [] OTHER -> Failed("unknown field")

\* visit_map of the derived Deserialize: the fields in any order, each
\* once; seen maps the keys read so far to their values.  (The value of
\* an unknown key would be skipped; to_string writes none.)
RECURSIVE Fields(_, _, _)
Fields(j, i, seen) ==
    LET k == deserialize_string(j, i)
    IN  IF ~k.ok THEN k
        ELSE IF k.val \in DOMAIN seen THEN Failed("duplicate field")
        ELSE IF At(j, k.pos) # 58 THEN Failed("expected a colon")
        ELSE LET v == deserialize_field(k.val, j, k.pos + 1)
             IN  IF ~v.ok THEN v
                 ELSE LET now == [f \in DOMAIN seen \cup { k.val } |->
                                      IF f = k.val THEN v.val ELSE seen[f]]
                      IN  CASE At(j, v.pos) = 44 -> Fields(j, v.pos + 1, now)
                            [] At(j, v.pos) = 125 -> Parsed(now, v.pos + 1)
                            [] OTHER -> Failed("expected a comma or a closing brace")

NoFields == [f \in {} |-> 0]

\* serde_json::from_str::<User>(json)
from_str(j) ==
    IF At(j, 1) # 123 THEN Err("invalid type: expected struct User")
    ELSE LET m == IF At(j, 2) = 125 THEN Parsed(NoFields, 3)
                  ELSE Fields(j, 2, NoFields)
         IN  IF ~m.ok THEN Err(m.err)
             ELSE IF m.pos # Len(j) + 1 THEN Err("trailing characters")
             ELSE IF DOMAIN m.val # { KeyId, KeyName, KeyEmail, KeyActive }
                  THEN Err("missing field")
             ELSE Ok([id |-> m.val[KeyId], name |-> m.val[KeyName],
                      email |-> m.val[KeyEmail], active |-> m.val[KeyActive]])

\* to_string, then from_str on what it wrote.
UserRoundTrip ==
    /\ lib_user # None
    /\ lib' = [fn |-> "serde_json", user |-> lib_user[1],
               json |-> to_string(lib_user[1]),
               back |-> from_str(to_string(lib_user[1]))]
    /\ UNCHANGED << appvars, lib_user, cli >>

NextSerde ==
    \/ UserNew
    \/ UserDeactivate
    \/ UserActivate
    \/ UserRoundTrip

SpecSerde == Init /\ [][NextSerde]_vars

\* C18: for every User (any id, name, email, either value of active),
\* serializing it to JSON and deserializing the result gives a User equal
\* to it in all four fields.
C18_RoundTrip ==
    lib.fn = "serde_json" =>
        /\ lib.back.ok
        /\ lib.back.val.id = lib.user.id
        /\ lib.back.val.name = lib.user.name
        /\ lib.back.val.email = lib.user.email
        /\ lib.back.val.active = lib.user.active
        /\ lib.back = Ok(lib.user)

\* An inactive user with the id u64::MAX (18446744073709551615) and a
\* name holding a quote, a backslash and a line feed went to JSON, the
\* three escaped, and came back.
C18_Witness ==
    /\ lib.fn = "serde_json"
    /\ lib.user.id = U64Max
    /\ ~lib.user.active
    /\ lib.user.name = << 97, 34, 92, 10 >>
    /\ serialize_u64(lib.user.id) =
           << 49, 56, 52, 52, 54, 55, 52, 52, 48, 55, 51, 55, 48, 57, 53, 53,
              49, 54, 49, 53 >>
    /\ format_escaped_str(lib.user.name) =
           << 34, 97, 92, 34, 92, 92, 92, 110, 34 >>
    /\ lib.back = Ok(lib.user)

\* ================================================= the CLI's db commands
\* main.rs, handle_db_command: each command is a process of its own on
\* the same store.  list-users makes two store calls, one after the other.

\* println!("  [{}] {} - {} ({})", ...): the line printed for a row.
UserLine(u) ==
    [id |-> u.id, name |-> u.name, email |-> u.email,
     status |-> IF u.active THEN "ativo" ELSE "inativo"]

\* list-users up to the return of list_all: the rows are held, or the
\* command ends with the error.
CliListAll ==
    /\ cli.pc \in { "none", "done", "failed" }
    /\ LET c == DbUser_list_all(users, next_id, store_up)
       IN  cli' = IF c.res.ok
                  THEN [pc |-> "listed", users |-> c.res.val]
                  ELSE [pc |-> "failed", err |-> c.res.err]
    /\ UNCHANGED << appvars, lib, lib_user >>

\* list-users from there: count is asked of the store, then the header
\* with the count and one line for each row held are printed.
CliCount ==
    /\ cli.pc = "listed"
    /\ LET c == DbUser_count(users, next_id, store_up)
       IN  cli' = IF c.res.ok
                  THEN [pc |-> "done", header |-> c.res.val,
                        lines |-> [i \in 1..Len(cli.users) |->
                                       UserLine(cli.users[i])]]
                  ELSE [pc |-> "failed", err |-> c.res.err]
    /\ UNCHANGED << appvars, lib, lib_user >>

\* Another client's create-user command.
CliCreateUser ==
    /\ next_id <= MaxId
    /\ \E name \in RepoNames, email \in RepoEmails, env \in Envs :
          Repo([op |-> "db create-user", name |-> name, email |-> email],
               "create",
               DbUser_create(users, next_id, store_up, name, email, env))

\* Another client's delete-user command.
CliDeleteUser ==
    \E id \in ReqIds :
        Repo([op |-> "db delete-user", id |-> id], "delete",
             DbUser_delete(users, next_id, store_up, id))

NextCli ==
    \/ CliListAll
    \/ CliCount
    \/ CliCreateUser
    \/ CliDeleteUser
    \/ StoreFlip

SpecCli == Init /\ [][NextCli]_vars

\* C19: in list-users, the number printed in the header ("N usuário(s)
\* encontrado(s)") is the number of user lines printed beneath it, even
\* when other clients create or delete users meanwhile.
C19_HeaderCountsLines ==
    cli.pc = "done" => cli.header = Len(cli.lines)

\* What happens instead: a user created between the two store calls is
\* counted in the header and has no line.
C19_HeaderAhead ==
    /\ cli.pc = "done"
    /\ cli.header = 1
    /\ cli.lines = << >>

====
